---- MODULE Spec2Model ----
(***************************************************************************)
(* Model of python/core/quality_runner.py: QualityRunner (executor         *)
(* identity attached to a result), PsnrQualityRunner (log parsing),        *)
(* VmafLegacyQualityRunner (rescale, SVR predict, post-correction) and     *)
(* VmafQualityRunner (model load, predict, clip, warp).                    *)
(*                                                                         *)
(* Text is modelled as sequences of one-character strings.  Floating point *)
(* values are modelled as exact rationals <<num, den>> with den > 0; the   *)
(* result of 0.0 / 0.0 (numpy nan) is <<0, 0>>.                            *)
(***************************************************************************)
EXTENDS Integers, Sequences, FiniteSets, TLC

VARIABLES
    log_file,     \* PSNR: the log file read by _get_quality_scores
    psnr_out,     \* PSNR: outcome of _get_quality_scores
    runners,      \* identity: the two runner instances (class, optional_dict)
    results,      \* identity: the Result each runner returned (or none yet)
    self,         \* model inference: the runner instance
    model_file,   \* model inference: state of the model file on disk
    call,         \* model inference: the last operation and its inputs
    out           \* model inference: outcome of the last operation, with the
                  \* collaborator calls it made, in order

vars == <<log_file, psnr_out, runners, results, self, model_file, call, out>>
psnrVars == <<log_file, psnr_out>>
idVars == <<runners, results>>
miVars == <<self, model_file, call, out>>

\* Value of a variable that a specification does not use.
Idle == [tag |-> "idle"]

(***************************************************************************)
(* Bounds of the model.                                                    *)
(***************************************************************************)
MaxLines == 3
MaxParams == 2
MaxFrames == 2

(***************************************************************************)
(* Text helpers.                                                           *)
(***************************************************************************)
DigitSeq == <<"0", "1", "2", "3", "4", "5", "6", "7", "8", "9">>
Digits == {DigitSeq[i] : i \in 1..10}

DigitVal(c) == (CHOOSE i \in 1..10 : DigitSeq[i] = c) - 1

\* Characters in code point order, for sorted() on keys.
AsciiOrder == <<".", "/", "0", "1", "2", "3", "4", "5", "6", "7", "8", "9",
                "N", "P", "R", "S", "V", "_",
                "a", "b", "c", "d", "e", "f", "g", "h", "i", "l", "m", "n",
                "o", "p", "r", "s", "t", "y">>

Ord(c) == CHOOSE i \in 1..Len(AsciiOrder) : AsciiOrder[i] = c

\* Length of the longest prefix of s made of characters of class cls
\* (a greedy  [cls]*  of the regular expression engine).
RECURSIVE RunLen(_, _)
RunLen(s, cls) ==
    IF s = <<>> \/ Head(s) \notin cls THEN 0 ELSE 1 + RunLen(Tail(s), cls)

Drop(s, n) == SubSeq(s, n + 1, Len(s))

Pow10(n) == IF n = 0 THEN 1 ELSE IF n = 1 THEN 10 ELSE IF n = 2 THEN 100 ELSE 1000

\* int(text) for a non-empty run of decimal digits.
RECURSIVE PyInt(_)
PyInt(s) ==
    IF s = <<>> THEN 0 ELSE PyInt(SubSeq(s, 1, Len(s) - 1)) * 10 + DigitVal(s[Len(s)])

\* float(text) for text over [0-9.-]: an optional leading '-', then digits with
\* at most one '.', and at least one digit; anything else raises ValueError.
FloatBody(s) == IF s # <<>> /\ Head(s) = "-" THEN Tail(s) ELSE s

FloatOk(s) ==
    LET b == FloatBody(s)
        w == RunLen(b, Digits)
        r == Drop(b, w)
        f == IF r # <<>> /\ Head(r) = "." THEN RunLen(Tail(r), Digits) ELSE 0
    IN  /\ \/ r = <<>>
           \/ Head(r) = "." /\ Len(r) = 1 + f
        /\ w + f >= 1

PyFloat(s) ==
    LET b == FloatBody(s)
        w == RunLen(b, Digits)
        r == Drop(b, w)
        f == IF r # <<>> THEN Len(r) - 1 ELSE 0
        mag == PyInt(SubSeq(b, 1, w)) * Pow10(f) + PyInt(Drop(r, 1))
    IN  <<IF s # <<>> /\ Head(s) = "-" THEN 0 - mag ELSE mag, Pow10(f)>>

(***************************************************************************)
(* PsnrQualityRunner._get_quality_scores                                   *)
(***************************************************************************)
PsnrPrefix == <<"p", "s", "n", "r", ":", " ">>
ValueChars == Digits \cup {".", "-"}

NoMatch == [matched |-> FALSE]

\* re.match(r"psnr: ([0-9]+) ([0-9.-]+)", line): anchored at the start of the
\* line only; text after the value is not looked at.
ReMatch(line) ==
    IF Len(line) < Len(PsnrPrefix) \/ SubSeq(line, 1, Len(PsnrPrefix)) # PsnrPrefix
    THEN NoMatch
    ELSE LET rest == Drop(line, Len(PsnrPrefix))
             n1 == RunLen(rest, Digits)
             rest2 == Drop(rest, n1 + 1)
             n2 == RunLen(rest2, ValueChars)
         IN  IF n1 >= 1 /\ Len(rest) > n1 /\ rest[n1 + 1] = " " /\ n2 >= 1
             THEN [matched |-> TRUE, g1 |-> SubSeq(rest, 1, n1), g2 |-> SubSeq(rest2, 1, n2)]
             ELSE NoMatch

PsnrScoresKey == "PSNR_scores"

\* Variant of the loop without the index check (assert cur_idx == counter).
RECURSIVE PsnrScanNoIndexCheck(_, _, _, _)
PsnrScanNoIndexCheck(lines, i, counter, psnr_scores) ==
    IF i > Len(lines)
    THEN IF Len(psnr_scores) = 0
         THEN [status |-> "AssertionError"]
         ELSE [status |-> "returned", key |-> PsnrScoresKey, scores |-> psnr_scores]
    ELSE LET mo == ReMatch(lines[i])
         IN  IF ~mo.matched THEN PsnrScanNoIndexCheck(lines, i + 1, counter, psnr_scores)
             ELSE IF ~FloatOk(mo.g2) THEN [status |-> "ValueError"]
             ELSE PsnrScanNoIndexCheck(lines, i + 1, counter + 1,
                                       Append(psnr_scores, PyFloat(mo.g2)))

\* Variant of the loop in which a line that does not match is fatal.
RECURSIVE PsnrScanStrict(_, _, _, _)
PsnrScanStrict(lines, i, counter, psnr_scores) ==
    IF i > Len(lines)
    THEN IF Len(psnr_scores) = 0
         THEN [status |-> "AssertionError"]
         ELSE [status |-> "returned", key |-> PsnrScoresKey, scores |-> psnr_scores]
    ELSE LET mo == ReMatch(lines[i])
         IN  IF ~mo.matched THEN [status |-> "AssertionError"]
             ELSE IF PyInt(mo.g1) # counter THEN [status |-> "AssertionError"]
             ELSE IF ~FloatOk(mo.g2) THEN [status |-> "ValueError"]
             ELSE PsnrScanStrict(lines, i + 1, counter + 1,
                                 Append(psnr_scores, PyFloat(mo.g2)))

\* The loop over log_file.readlines() from line i on, then the final assert.
RECURSIVE PsnrScan(_, _, _, _)
PsnrScan(lines, i, counter, psnr_scores) ==
    IF i > Len(lines)
    THEN IF Len(psnr_scores) = 0
         THEN [status |-> "AssertionError"]
         ELSE [status |-> "returned", key |-> PsnrScoresKey, scores |-> psnr_scores]
    ELSE LET mo == ReMatch(lines[i])
         IN  IF ~mo.matched THEN PsnrScan(lines, i + 1, counter, psnr_scores)
             ELSE IF PyInt(mo.g1) # counter THEN [status |-> "AssertionError"]
             ELSE IF ~FloatOk(mo.g2) THEN [status |-> "ValueError"]
             ELSE PsnrScan(lines, i + 1, counter + 1, Append(psnr_scores, PyFloat(mo.g2)))

Psnr_get_quality_scores(file) ==
    IF ~file.exists THEN [status |-> "IOError"]
    ELSE PsnrScan(file.lines, 1, 0, <<>>)

\* Log lines the external psnr program and the log header can produce.
L_0_345 == PsnrPrefix \o <<"0", " ", "3", "4", ".", "5">>
L_1_352 == PsnrPrefix \o <<"1", " ", "3", "5", ".", "2">>
L_2_neg == PsnrPrefix \o <<"2", " ", "-", "1">>
L_01_352 == PsnrPrefix \o <<"0", "1", " ", "3", "5", ".", "2">>
L_1_bad == PsnrPrefix \o <<"1", " ", "1", "-", "2">>
L_0_trail == PsnrPrefix \o <<"0", " ", "3", "4", ".", "5", " ", "d", "B">>
L_neg_idx == PsnrPrefix \o <<"-", "1", " ", "3", "4", ".", "5">>
L_0_noval == PsnrPrefix \o <<"0", " ", "y">>
L_lead == <<" ">> \o L_0_345
L_header == <<"s", "t", "a", "r", "t">>
L_empty == <<>>

LogLines == {L_0_345, L_1_352, L_2_neg, L_01_352, L_1_bad, L_0_trail,
             L_neg_idx, L_0_noval, L_lead, L_header, L_empty}

SeqsUpTo(S, n) == UNION {[1..k -> S] : k \in 0..n}

LogFiles == {[exists |-> FALSE]} \cup
            {[exists |-> TRUE, lines |-> ls] : ls \in SeqsUpTo(LogLines, MaxLines)}

PsnrInit ==
    /\ log_file \in LogFiles
    /\ psnr_out = Idle
    /\ runners = Idle /\ results = Idle
    /\ self = Idle /\ model_file = Idle /\ call = Idle /\ out = Idle

GetQualityScores ==
    /\ psnr_out = Idle
    /\ psnr_out' = Psnr_get_quality_scores(log_file)
    /\ UNCHANGED <<log_file, idVars, miVars>>

PsnrNext == GetQualityScores

SpecPsnr == PsnrInit /\ [][PsnrNext]_vars

(***************************************************************************)
(* Floating point values as exact rationals <<num, den>>.                  *)
(***************************************************************************)
Q(n) == <<n, 1>>

IsNaN(a) == a[1] = 0 /\ a[2] = 0

Sign(n) == IF n > 0 THEN 1 ELSE IF n < 0 THEN 0 - 1 ELSE 0

Abs(n) == IF n < 0 THEN 0 - n ELSE n

RECURSIVE Gcd(_, _)
Gcd(a, b) == IF b = 0 THEN a ELSE Gcd(b, a % b)

QNorm(a) ==
    IF a[2] = 0 THEN <<Sign(a[1]), 0>>
    ELSE LET g == Gcd(Abs(a[1]), Abs(a[2]))
         IN  <<Sign(a[2]) * (a[1] \div g), Abs(a[2]) \div g>>

QAdd(a, b) == QNorm(<<a[1] * b[2] + b[1] * a[2], a[2] * b[2]>>)
QSub(a, b) == QNorm(<<a[1] * b[2] - b[1] * a[2], a[2] * b[2]>>)
QMul(a, b) == QNorm(<<a[1] * b[1], a[2] * b[2]>>)
\* x / 0.0 on numpy doubles yields nan (x = 0) or +-inf, with a warning only.
QDiv(a, b) == QNorm(<<a[1] * b[2], a[2] * b[1]>>)

\* a < b; any comparison with nan is False.
QLt(a, b) ==
    /\ ~IsNaN(a) /\ ~IsNaN(b)
    /\ CASE a[2] = 0 /\ b[2] = 0 -> a[1] < b[1]
         [] a[2] = 0 -> a[1] < 0
         [] b[2] = 0 -> b[1] > 0
         [] OTHER -> a[1] * b[2] < b[1] * a[2]

\* np.clip(v, lo, hi) = minimum(maximum(v, lo), hi)
NpClip(v, lo, hi) ==
    LET m == IF QLt(v, lo) THEN lo ELSE v
    IN  IF QLt(hi, m) THEN hi ELSE m

(***************************************************************************)
(* Python values and the optional_dict of a runner.                        *)
(***************************************************************************)
None == [tag |-> "None"]
StrV(chars) == [tag |-> "str", s |-> chars]
Some(x) == [tag |-> "some", v |-> x]

\* optional_dict: None, or a dict given by the <<key, value>> pairs in the
\* order dict.keys() yields them.
Dict(pairs) == [tag |-> "dict", supplied |-> pairs]

DictKeys(od) == [i \in 1..Len(od.supplied) |-> od.supplied[i][1]]
HasKey(od, k) == \E i \in 1..Len(od.supplied) : od.supplied[i][1] = k
Lookup(od, k) == od.supplied[CHOOSE i \in 1..Len(od.supplied) : od.supplied[i][1] = k][2]

(***************************************************************************)
(* Collaborators: the model files on disk, the Feature Assembler, the      *)
(* predictor.                                                              *)
(***************************************************************************)
TheAsset == "asset"

MissingFile == [status |-> "missing"]
CorruptFile == [status |-> "corrupt"]
OkFile(info) == [status |-> "ok", info |-> info]

SVM_MODEL_FILE == <<"/", "s">>
DEFAULT_MODEL_FILEPATH == <<"/", "d">>
CustomModelFilepath == <<"/", "c">>
ModelFilepathKey == <<"m", "o", "d", "e", "l", "_", "f", "i", "l", "e", "p", "a", "t", "h">>

\* Reading the file at a path value: a path that is no file name, or names no
\* file, fails like a missing file.
FileAt(disk, v) ==
    IF v.tag = "str" /\ v.s \in DOMAIN disk THEN disk[v.s] ELSE MissingFile

Ev(op, arg) == [op |-> op, arg |-> arg]
EventOps(evs) == {evs[i].op : i \in 1..Len(evs)}

Raised(status, evs) == [status |-> status, events |-> evs]

(***************************************************************************)
(* VmafLegacyQualityRunner                                                 *)
(***************************************************************************)
FEATURE_RESCALE_DICT ==
    [vif |-> <<Q(0), Q(1)>>, adm |-> <<<<4, 10>>, Q(1)>>,
     ansnr |-> <<Q(10), Q(50)>>, motion |-> <<Q(0), Q(20)>>]

VmafLegacy_rescale(vals, lower_upper_bound) ==
    LET lower_bound == lower_upper_bound[1]
        upper_bound == lower_upper_bound[2]
    IN  [i \in 1..Len(vals) |->
            QDiv(QSub(NpClip(vals[i], lower_bound, upper_bound), lower_bound),
                 QSub(upper_bound, lower_bound))]

VmafLegacy_post_correction(motion, score) ==
    LET val == IF QLt(Q(20), motion) THEN Q(20) ELSE motion
        s1 == IF QLt(Q(12), motion)
              THEN QMul(score, QAdd(QMul(QSub(val, Q(12)), <<15, 1000>>), Q(1)))
              ELSE score
    IN  IF QLt(Q(100), s1) THEN Q(100)
        ELSE IF QLt(s1, Q(0)) THEN Q(0)
        ELSE s1

\* executor_id of the base Executor: TYPE + "_" + VERSION.
TypeOf(cls) ==
    CASE cls = "PsnrQualityRunner" -> <<"P", "S", "N", "R">>
      [] cls = "VmafLegacyQualityRunner" ->
            <<"V", "M", "A", "F", "_", "l", "e", "g", "a", "c", "y">>
      [] cls = "VmafQualityRunner" -> <<"V", "M", "A", "F">>

VersionOf(cls) ==
    CASE cls = "PsnrQualityRunner" -> <<"1", ".", "0">>
      [] cls = "VmafLegacyQualityRunner" -> <<"1", ".", "2">>
      [] cls = "VmafQualityRunner" -> <<"0", ".", "3", ".", "2">>

Executor_executor_id(rn) == TypeOf(rn.cls) \o <<"_">> \o VersionOf(rn.cls)

\* _run_on_asset.  env: the Feature Assembler's outcome (fa_ok), the raw
\* per-frame features it yields (frames) and the predictor's per-frame
\* outputs (preds).
VmafLegacy_run_on_asset(rn, disk, env) ==
    LET ev1 == <<Ev("FeatureAssembler", TheAsset), Ev("fassembler.run", TheAsset)>>
        ev2 == Append(ev1, Ev("svm_load_model", SVM_MODEL_FILE))
        n == Len(env.frames)
        raw(key) == [i \in 1..n |-> env.frames[i][key]]
        scaled(key) == VmafLegacy_rescale(raw(key), FEATURE_RESCALE_DICT[key])
        motion == scaled("motion")
        scores == [i \in 1..n |-> VmafLegacy_post_correction(motion[i], env.preds[i])]
    IN  IF ~env.fa_ok THEN Raised("FeatureAssemblerError", ev1)
        ELSE IF disk[SVM_MODEL_FILE].status # "ok" THEN Raised("ModelLoadError", ev2)
        ELSE [status |-> "returned",
              events |-> Append(ev2, Ev("svm_predict", n)),
              asset |-> TheAsset,
              executor_id |-> Executor_executor_id(rn),
              scores_key |-> "VMAF_legacy_scores",
              scores |-> scores]

VmafLegacy_remove_result(rn, disk) ==
    [status |-> "returned",
     events |-> <<Ev("FeatureAssembler", TheAsset), Ev("fassembler.remove_results", TheAsset)>>]

(***************************************************************************)
(* VmafQualityRunner                                                       *)
(***************************************************************************)
Vmaf_load_model_path(rn) ==
    IF /\ rn.optional_dict # None
       /\ HasKey(rn.optional_dict, ModelFilepathKey)
       /\ Lookup(rn.optional_dict, ModelFilepathKey) # None
    THEN Lookup(rn.optional_dict, ModelFilepathKey)
    ELSE StrV(DEFAULT_MODEL_FILEPATH)

Vmaf_load_model(rn, disk) == FileAt(disk, Vmaf_load_model_path(rn))

\* Variant of clip_score that ignores the lower bound.
Vmaf_clip_score_upper_only(info, ys_pred) ==
    IF info.score_clip # None
    THEN [i \in 1..Len(ys_pred) |->
            IF QLt(Q(info.score_clip.v[2]), ys_pred[i]) THEN Q(info.score_clip.v[2])
            ELSE ys_pred[i]]
    ELSE ys_pred

Vmaf_clip_score(info, ys_pred) ==
    IF info.score_clip # None
    THEN [i \in 1..Len(ys_pred) |->
            NpClip(ys_pred[i], Q(info.score_clip.v[1]), Q(info.score_clip.v[2]))]
    ELSE ys_pred

\* Variant of warp_score that warps towards the lower bound of score_clip.
Vmaf_warp_score_lower(info, xs, ys_pred) ==
    IF info.dis1st_thr # None /\ info.score_clip # None /\ xs.dis1st # None
    THEN IF Len(xs.dis1st.v) # Len(ys_pred)
         THEN [status |-> "AssertionError", events |-> <<>>]
         ELSE [status |-> "returned", events |-> <<>>,
               ys |-> [i \in 1..Len(ys_pred) |->
                         IF xs.dis1st.v[i] < info.dis1st_thr.v
                         THEN QSub(Q(info.score_clip.v[1]),
                                   QDiv(QMul(Q(xs.dis1st.v[i]),
                                             QSub(Q(info.score_clip.v[1]), ys_pred[i])),
                                        Q(info.dis1st_thr.v)))
                         ELSE ys_pred[i]]]
    ELSE [status |-> "returned", events |-> <<>>, ys |-> ys_pred]

\* warp_score(model, xs, ys_pred); info is the model's appended info, xs.dis1st
\* the sequence under the dis1st score key of xs (None when the key is absent).
Vmaf_warp_score(info, xs, ys_pred) ==
    IF info.dis1st_thr # None /\ info.score_clip # None /\ xs.dis1st # None
    THEN LET y_max == Q(info.score_clip.v[2])
             dis1sts == xs.dis1st.v
             dis1st_thr == info.dis1st_thr.v
         IN  IF Len(dis1sts) # Len(ys_pred)
             THEN [status |-> "AssertionError", events |-> <<>>]
             ELSE [status |-> "returned", events |-> <<>>,
                   ys |-> [i \in 1..Len(ys_pred) |->
                             IF dis1sts[i] < dis1st_thr
                             THEN QSub(y_max,
                                       QDiv(QMul(Q(dis1sts[i]), QSub(y_max, ys_pred[i])),
                                            Q(dis1st_thr)))
                             ELSE ys_pred[i]]]
    ELSE [status |-> "returned", events |-> <<>>, ys |-> ys_pred]

\* _run_on_asset.  env: the Feature Assembler's outcome (fa_ok) and the
\* model's per-frame predictions (preds).
Vmaf_run_on_asset(rn, disk, env) ==
    LET path == Vmaf_load_model_path(rn)
        model == Vmaf_load_model(rn, disk)
        ev1 == <<Ev("TrainTestModel.from_file", path)>>
        ev2 == ev1 \o <<Ev("FeatureAssembler", TheAsset), Ev("fassembler.run", TheAsset)>>
        ev3 == ev2 \o <<Ev("TrainTestModel.from_file", path), Ev("model.predict", Len(env.preds))>>
    IN  IF model.status # "ok" THEN Raised("ModelLoadError", ev1)
        ELSE IF ~env.fa_ok THEN Raised("FeatureAssemblerError", ev2)
        ELSE [status |-> "returned",
              events |-> ev3,
              asset |-> TheAsset,
              executor_id |-> Executor_executor_id(rn),
              scores_key |-> "VMAF_scores",
              scores |-> Vmaf_clip_score(model.info, env.preds)]

Vmaf_remove_result(rn, disk) ==
    LET path == Vmaf_load_model_path(rn)
        ev1 == <<Ev("TrainTestModel.from_file", path)>>
    IN  IF Vmaf_load_model(rn, disk).status # "ok" THEN Raised("ModelLoadError", ev1)
        ELSE [status |-> "returned",
              events |-> ev1 \o <<Ev("FeatureAssembler", TheAsset),
                                  Ev("fassembler.remove_results", TheAsset)>>]

(***************************************************************************)
(* Method resolution: which class body defines a method.                   *)
(***************************************************************************)
Defines(cls) ==
    CASE cls = "QualityRunner" -> {"_read_result", "get_scores_key", "get_score_key"}
      [] cls = "PsnrQualityRunner" -> {"_run_and_generate_log_file", "_get_quality_scores"}
      [] cls = "VmafLegacyQualityRunner" ->
            {"_get_vmaf_feature_assembler_instance", "_run_on_asset",
             "_post_correction", "_rescale", "_remove_result"}
      [] cls = "VmafQualityRunner" ->
            {"_get_vmaf_feature_assembler_instance", "_run_on_asset", "set_clip_score",
             "clip_score", "warp_score", "_load_model", "_remove_result"}

Resolve(cls, method) ==
    IF method \in Defines(cls) THEN cls
    ELSE IF method \in Defines("QualityRunner") THEN "QualityRunner"
    ELSE "Executor"

\* Executor._remove_log: the base removal of the asset's log file.
Executor_remove_log(rn) ==
    [status |-> "returned", events |-> <<Ev("Executor._remove_log", TheAsset)>>]

\* remove_logs() on a runner: _remove_log as the runner's class resolves it.
Runner_remove_log(rn) ==
    IF Resolve(rn.cls, "_remove_log") = "Executor" THEN Executor_remove_log(rn)
    ELSE [status |-> "returned",
          events |-> <<Ev("FeatureAssembler", TheAsset), Ev("fassembler.remove_logs", TheAsset)>>]

\* remove_results() on a model inference runner.
Runner_remove_result(rn, disk) ==
    IF Resolve(rn.cls, "_remove_result") = "VmafLegacyQualityRunner"
    THEN VmafLegacy_remove_result(rn, disk)
    ELSE Vmaf_remove_result(rn, disk)

(***************************************************************************)
(* SpecMI: one model inference runner, its model file, and the calls made  *)
(* on it.                                                                  *)
(***************************************************************************)
NoInfo == [score_clip |-> None, dis1st_thr |-> None]

ModelInfos ==
    {[score_clip |-> c, dis1st_thr |-> t] :
        c \in {None, Some(<<0, 100>>), Some(<<10, 90>>)}, t \in {None, Some(5)}}

ModelPaths == {SVM_MODEL_FILE, DEFAULT_MODEL_FILEPATH, CustomModelFilepath}

MIRunners ==
    {[cls |-> "VmafLegacyQualityRunner", optional_dict |-> None]} \cup
    {[cls |-> "VmafQualityRunner", optional_dict |-> od] :
        od \in {None, Dict(<<<<ModelFilepathKey, StrV(CustomModelFilepath)>>>>),
                Dict(<<<<ModelFilepathKey, None>>>>)}}

\* The file the runner's configuration names.
ResolvedPath(rn) ==
    IF rn.cls = "VmafLegacyQualityRunner" THEN SVM_MODEL_FILE
    ELSE Vmaf_load_model_path(rn).s

FilesFor(rn) ==
    IF rn.cls = "VmafLegacyQualityRunner" THEN {MissingFile, CorruptFile, OkFile(NoInfo)}
    ELSE {MissingFile, CorruptFile} \cup {OkFile(i) : i \in ModelInfos}

MotionValues == {Q(0), Q(12), Q(15), Q(20), Q(25)}
Predictions == {Q(-5), Q(80), Q(99), Q(120)}

LegacyFrames == {[vif |-> <<5, 10>>, adm |-> <<7, 10>>, ansnr |-> Q(30), motion |-> m] :
                    m \in MotionValues}

SeqsFrom1(S, n) == UNION {[1..k -> S] : k \in 1..n}

LegacyEnvs ==
    {[fa_ok |-> FALSE, frames |-> <<>>, preds |-> <<>>]} \cup
    UNION {{[fa_ok |-> TRUE, frames |-> fs, preds |-> ps] :
               fs \in [1..k -> LegacyFrames], ps \in [1..k -> Predictions]} :
           k \in 1..MaxFrames}

VmafEnvs ==
    {[fa_ok |-> FALSE, preds |-> <<>>]} \cup
    {[fa_ok |-> TRUE, preds |-> ps] : ps \in SeqsFrom1(Predictions, MaxFrames)}

RescaleValues == {Q(0), <<7, 10>>, Q(15), Q(60)}
RescaleBounds ==
    {<<lo, hi>> \in {Q(0), <<4, 10>>, Q(1), Q(20)} \X {Q(0), <<4, 10>>, Q(1), Q(20)} :
        ~QLt(hi, lo)}

Dis1stValues == {0, 2, 5, 7}
WarpXs == {[dis1st |-> None]} \cup
          {[dis1st |-> Some(ds)] : ds \in SeqsFrom1(Dis1stValues, MaxFrames)}
WarpYs == {Q(50), Q(90), Q(120)}

NoCall == [op |-> "none"]
NoOut == [status |-> "none", events |-> <<>>]

MIInit ==
    /\ self \in MIRunners
    /\ \E f \in FilesFor(self) :
          model_file = [p \in ModelPaths |-> IF p = ResolvedPath(self) THEN f ELSE OkFile(NoInfo)]
    /\ call = NoCall
    /\ out = NoOut
    /\ log_file = Idle /\ psnr_out = Idle /\ runners = Idle /\ results = Idle

\* The outcome of a call depends on the runner, the files on disk and the
\* call's inputs only, so a call that takes inputs is explored after the
\* initial state and after each removal; removals follow every call.
FollowableOps == {"none", "remove_results", "remove_logs"}

RunOnAssetLegacy ==
    /\ self.cls = "VmafLegacyQualityRunner"
    /\ call.op \in FollowableOps
    /\ \E env \in LegacyEnvs :
          /\ call' = [op |-> "_run_on_asset", env |-> env]
          /\ out' = VmafLegacy_run_on_asset(self, model_file, env)
    /\ UNCHANGED <<self, model_file, psnrVars, idVars>>

RunOnAssetVmaf ==
    /\ self.cls = "VmafQualityRunner"
    /\ call.op \in FollowableOps
    /\ \E env \in VmafEnvs :
          /\ call' = [op |-> "_run_on_asset", env |-> env]
          /\ out' = Vmaf_run_on_asset(self, model_file, env)
    /\ UNCHANGED <<self, model_file, psnrVars, idVars>>

Rescale ==
    /\ self.cls = "VmafLegacyQualityRunner"
    /\ call.op \in FollowableOps
    /\ \E vals \in SeqsFrom1(RescaleValues, MaxFrames), b \in RescaleBounds :
          /\ call' = [op |-> "_rescale", vals |-> vals, lower_upper_bound |-> b]
          /\ out' = [status |-> "returned", events |-> <<>>,
                     vals |-> VmafLegacy_rescale(vals, b)]
    /\ UNCHANGED <<self, model_file, psnrVars, idVars>>

PostCorrection ==
    /\ self.cls = "VmafLegacyQualityRunner"
    /\ call.op \in FollowableOps
    /\ \E motion \in MotionValues, score \in Predictions :
          /\ call' = [op |-> "_post_correction", motion |-> motion, score |-> score]
          /\ out' = [status |-> "returned", events |-> <<>>,
                     score |-> VmafLegacy_post_correction(motion, score)]
    /\ UNCHANGED <<self, model_file, psnrVars, idVars>>

WarpScore ==
    /\ self.cls = "VmafQualityRunner"
    /\ call.op \in FollowableOps
    /\ \E info \in ModelInfos, xs \in WarpXs, ys \in SeqsFrom1(WarpYs, MaxFrames) :
          /\ call' = [op |-> "warp_score", info |-> info, xs |-> xs, ys_pred |-> ys]
          /\ out' = Vmaf_warp_score(info, xs, ys)
    /\ UNCHANGED <<self, model_file, psnrVars, idVars>>

RemoveResult ==
    /\ call' = [op |-> "remove_results"]
    /\ out' = Runner_remove_result(self, model_file)
    /\ UNCHANGED <<self, model_file, psnrVars, idVars>>

RemoveLog ==
    /\ call' = [op |-> "remove_logs"]
    /\ out' = Runner_remove_log(self)
    /\ UNCHANGED <<self, model_file, psnrVars, idVars>>

MINext ==
    \/ RunOnAssetLegacy
    \/ RunOnAssetVmaf
    \/ Rescale
    \/ PostCorrection
    \/ WarpScore
    \/ RemoveResult
    \/ RemoveLog

SpecMI == MIInit /\ [][MINext]_vars

(***************************************************************************)
(* QualityRunner._read_result                                              *)
(***************************************************************************)
\* a < b for str keys: lexicographic by code point.
RECURSIVE StrLess(_, _)
StrLess(a, b) ==
    IF b = <<>> THEN FALSE
    ELSE IF a = <<>> THEN TRUE
    ELSE IF Head(a) # Head(b) THEN Ord(Head(a)) < Ord(Head(b))
    ELSE StrLess(Tail(a), Tail(b))

\* sorted(keys)
RECURSIVE Sorted(_)
Sorted(keys) ==
    IF keys = <<>> THEN <<>>
    ELSE LET m == CHOOSE i \in 1..Len(keys) :
                     \A j \in 1..Len(keys) : ~StrLess(keys[j], keys[i])
         IN  <<keys[m]>> \o Sorted(SubSeq(keys, 1, m - 1) \o SubSeq(keys, m + 1, Len(keys)))

\* '{v}'.format(v=value)
Format(v) ==
    CASE v.tag = "str" -> v.s
      [] v.tag = "None" -> <<"N", "o", "n", "e">>

\* sep.join(parts)
RECURSIVE Join(_, _)
Join(sep, parts) ==
    IF parts = <<>> THEN <<>>
    ELSE IF Len(parts) = 1 THEN parts[1]
    ELSE parts[1] \o sep \o Join(sep, Tail(parts))

KeyValue(od, k) == k \o <<"_">> \o Format(Lookup(od, k))

\* The executor_id _read_result attaches to the Result.
ReadResultExecutorId(rn) ==
    IF rn.optional_dict # None
    THEN LET ks == Sorted(DictKeys(rn.optional_dict))
         IN  Executor_executor_id(rn) \o <<"_">> \o
             Join(<<"_">>, [i \in 1..Len(ks) |-> KeyValue(rn.optional_dict, ks[i])])
    ELSE Executor_executor_id(rn)

QualityRunner_read_result(rn, file) ==
    LET q == Psnr_get_quality_scores(file)
    IN  IF q.status # "returned" THEN [status |-> q.status]
        ELSE [status |-> "returned",
              asset |-> TheAsset,
              executor_id |-> ReadResultExecutorId(rn),
              scores_key |-> q.key,
              scores |-> q.scores]

(***************************************************************************)
(* SpecId: two runner instances of one class, each configured with its own *)
(* optional_dict, producing a Result for the same asset.                   *)
(***************************************************************************)
KeyA == <<"a">>
KeyB == <<"b">>
OptionalKeys == {KeyA, KeyB, ModelFilepathKey}

ValuesOf(k) ==
    CASE k = KeyA -> {StrV(<<"1">>), StrV(<<"1", "_", "b", "_", "2">>)}
      [] k = KeyB -> {StrV(<<"2">>), StrV(<<"2", "_", "b", "_", "2">>)}
      [] k = ModelFilepathKey -> {StrV(CustomModelFilepath), None}

AllValues == UNION {ValuesOf(k) : k \in OptionalKeys}

\* The <<key, value>> sequences of up to MaxParams distinct keys.
SuppliedPairs ==
    {ps \in SeqsUpTo(OptionalKeys \X AllValues, MaxParams) :
        /\ \A i \in 1..Len(ps) : ps[i][2] \in ValuesOf(ps[i][1])
        /\ \A i, j \in 1..Len(ps) : i # j => ps[i][1] # ps[j][1]}

OptionalDicts == {None} \cup {Dict(ps) : ps \in SuppliedPairs}

RunnerClasses == {"PsnrQualityRunner", "VmafLegacyQualityRunner", "VmafQualityRunner"}
RunnerIds == {1, 2}

IdDisk ==
    [p \in ModelPaths |->
        IF p = CustomModelFilepath
        THEN OkFile([score_clip |-> Some(<<10, 90>>), dis1st_thr |-> None])
        ELSE OkFile([score_clip |-> Some(<<0, 100>>), dis1st_thr |-> None])]

IdLogFiles == {[exists |-> TRUE, lines |-> <<L_header, L_0_345, L_1_352>>],
               [exists |-> TRUE, lines |-> <<L_header>>]}

IdLegacyEnvs ==
    {[fa_ok |-> TRUE,
      frames |-> <<[vif |-> <<5, 10>>, adm |-> <<7, 10>>, ansnr |-> Q(30), motion |-> Q(15)]>>,
      preds |-> <<Q(80)>>]}

IdVmafEnvs == {[fa_ok |-> TRUE, preds |-> <<Q(95)>>], [fa_ok |-> FALSE, preds |-> <<>>]}

NoResult == [status |-> "none"]

IdInit ==
    /\ \E cls \in RunnerClasses :
          runners \in [RunnerIds -> {[cls |-> cls, optional_dict |-> od] : od \in OptionalDicts}]
    /\ results = [r \in RunnerIds |-> NoResult]
    /\ log_file = Idle /\ psnr_out = Idle
    /\ self = Idle /\ model_file = Idle /\ call = Idle /\ out = Idle

ReadResult(r) ==
    /\ runners[r].cls = "PsnrQualityRunner"
    /\ results[r] = NoResult
    /\ \E file \in IdLogFiles :
          results' = [results EXCEPT ![r] = QualityRunner_read_result(runners[r], file)]
    /\ UNCHANGED <<runners, psnrVars, miVars>>

IdRunOnAssetLegacy(r) ==
    /\ runners[r].cls = "VmafLegacyQualityRunner"
    /\ results[r] = NoResult
    /\ \E env \in IdLegacyEnvs :
          results' = [results EXCEPT ![r] = VmafLegacy_run_on_asset(runners[r], IdDisk, env)]
    /\ UNCHANGED <<runners, psnrVars, miVars>>

IdRunOnAssetVmaf(r) ==
    /\ runners[r].cls = "VmafQualityRunner"
    /\ results[r] = NoResult
    /\ \E env \in IdVmafEnvs :
          results' = [results EXCEPT ![r] = Vmaf_run_on_asset(runners[r], IdDisk, env)]
    /\ UNCHANGED <<runners, psnrVars, miVars>>

IdReadResults == \E r \in RunnerIds : ReadResult(r)
IdRunsLegacy == \E r \in RunnerIds : IdRunOnAssetLegacy(r)
IdRunsVmaf == \E r \in RunnerIds : IdRunOnAssetVmaf(r)

IdNext ==
    \/ IdReadResults
    \/ IdRunsLegacy
    \/ IdRunsVmaf

SpecId == IdInit /\ [][IdNext]_vars

(***************************************************************************)
(* Claims about PsnrQualityRunner._get_quality_scores (SpecPsnr).          *)
(***************************************************************************)
QEq(a, b) == a[1] * b[2] = b[1] * a[2]

Matches(line) == ReMatch(line).matched

PsnrDone == psnr_out # Idle
PsnrReturned == PsnrDone /\ psnr_out.status = "returned"
PsnrAborted == PsnrDone /\ psnr_out.status \in {"AssertionError", "ValueError", "IOError"}

\* The lines of the log that match the pattern, in file order.
MatchedLines == IF log_file.exists THEN SelectSeq(log_file.lines, Matches) ELSE <<>>

IndicesContiguous ==
    \A k \in 1..Len(MatchedLines) : PyInt(ReMatch(MatchedLines[k]).g1) = k - 1

\* C3: for every log file, _get_quality_scores either aborts with a fatal
\* error and returns nothing, or returns under 'PSNR_scores' a sequence of
\* length n >= 1 whose i-th element is the value of the i-th matched line and
\* whose matched indices are exactly 0..n-1 in order; a gap, repeat or
\* reordering of the indices, or zero matched lines, always aborts.
C3_AbortOrContiguousScores ==
    PsnrDone =>
        /\ PsnrAborted \/ PsnrReturned
        /\ PsnrAborted => DOMAIN psnr_out = {"status"}
        /\ PsnrReturned =>
              /\ psnr_out.key = "PSNR_scores"
              /\ Len(psnr_out.scores) >= 1
              /\ Len(psnr_out.scores) = Len(MatchedLines)
              /\ IndicesContiguous
              /\ \A k \in 1..Len(MatchedLines) :
                    QEq(psnr_out.scores[k], PyFloat(ReMatch(MatchedLines[k]).g2))
        /\ (Len(MatchedLines) = 0 \/ ~IndicesContiguous) => PsnrAborted
        /\ (log_file.exists /\ log_file.lines = <<L_0_345, L_1_352>>) =>
              (PsnrReturned /\ psnr_out.scores = <<<<345, 10>>, <<352, 10>>>>)

\* C3 witness: a log of three in-order matched lines (the second with a
\* leading zero in its index, the third with a negative value) was parsed and
\* returned.
C3_Witness ==
    /\ PsnrReturned
    /\ Len(psnr_out.scores) = 3
    /\ log_file.lines = <<L_0_345, L_01_352, L_2_neg>>

\* A line in the documented format "<metric>: <index> <value>": the whole line
\* is the metric tag, a non-negative decimal index, one space, and a signed
\* decimal value.
SignedDecimal(v) ==
    LET b == IF v # <<>> /\ Head(v) = "-" THEN Tail(v) ELSE v
    IN  /\ \A j \in 1..Len(b) : b[j] \in Digits \cup {"."}
        /\ Cardinality({j \in 1..Len(b) : b[j] = "."}) <= 1
        /\ \E j \in 1..Len(b) : b[j] \in Digits

WellFormedLine(line) ==
    /\ Len(line) > Len(PsnrPrefix)
    /\ SubSeq(line, 1, Len(PsnrPrefix)) = PsnrPrefix
    /\ LET rest == Drop(line, Len(PsnrPrefix))
       IN  \E n \in 1..Len(rest) :
              /\ \A j \in 1..n : rest[j] \in Digits
              /\ n < Len(rest) /\ rest[n + 1] = " "
              /\ SignedDecimal(Drop(rest, n + 1))

HasMalformedLine ==
    log_file.exists /\ \E i \in 1..Len(log_file.lines) : ~WellFormedLine(log_file.lines[i])

\* C4 as stated: if any line of the log deviates from the format
\* '<metric>: <index> <value>', _get_quality_scores ends in a fatal error and
\* returns no result.
C4_Original_MalformedLineIsFatal ==
    (PsnrDone /\ HasMalformedLine) => PsnrAborted

\* C4 as amended: a line that does not begin with
\* 'psnr: <digits> <one or more of 0-9 . ->' is skipped, and text after the
\* value is ignored; the call returns exactly when at least one line begins
\* so, every such line carries the index equal to the number of such lines
\* before it, and every such line's value text is a valid float; the result
\* then holds one score per such line.  Otherwise it ends in a fatal error.
C4_FatalOnlyForMatchedLines ==
    (PsnrDone /\ log_file.exists) =>
        /\ PsnrReturned <=>
              /\ Len(MatchedLines) >= 1
              /\ IndicesContiguous
              /\ \A k \in 1..Len(MatchedLines) : FloatOk(ReMatch(MatchedLines[k]).g2)
        /\ ~PsnrReturned => PsnrAborted
        /\ PsnrReturned => Len(psnr_out.scores) = Len(MatchedLines)

\* C4 witness: a log holding lines outside the format was parsed and a result
\* returned from the matching lines.
C4_Witness ==
    /\ PsnrReturned
    /\ HasMalformedLine
    /\ log_file.lines = <<L_header, L_0_trail, L_1_352>>

(***************************************************************************)
(* Claims about the model inference runners (SpecMI).                      *)
(***************************************************************************)
IsLegacy == self.cls = "VmafLegacyQualityRunner"
IsVmaf == self.cls = "VmafQualityRunner"

QLe(a, b) == QLt(a, b) \/ QEq(a, b)

\* C5: a model inference runner redirects result removal and log removal to
\* the Feature Assembler; in no sequence of run and remove operations does it
\* remove a log file through the base Executor removal logic.
C5_Original_RemovalGoesToAssembler ==
    /\ "Executor._remove_log" \notin EventOps(out.events)
    /\ (call.op = "remove_logs" /\ out.status = "returned") =>
          "fassembler.remove_logs" \in EventOps(out.events)
    /\ (call.op = "remove_results" /\ out.status = "returned") =>
          "fassembler.remove_results" \in EventOps(out.events)

\* C6: in both pipelines a model load failure surfaces before any feature
\* extraction: when a run ends in a model load failure, the Feature
\* Assembler's run has not been performed.
C6_Original_LoadFailsBeforeExtraction ==
    (call.op = "_run_on_asset" /\ out.status = "ModelLoadError") =>
        "fassembler.run" \notin EventOps(out.events)

\* C7: _rescale called with degenerate bounds (upper == lower) surfaces a
\* configuration error and returns no sequence computed with a zero divisor;
\* for non-degenerate bounds every returned value equals
\* (clip(v, lower, upper) - lower) / (upper - lower) and lies in [0, 1].
C7_Original_RescaleRefusesDegenerateBounds ==
    call.op = "_rescale" =>
        LET lo == call.lower_upper_bound[1]
            hi == call.lower_upper_bound[2]
        IN  IF QEq(lo, hi)
            THEN out.status = "ConfigurationError"
            ELSE /\ out.status = "returned"
                 /\ Len(out.vals) = Len(call.vals)
                 /\ \A i \in 1..Len(call.vals) :
                       LET v == call.vals[i]
                           c == IF QLt(v, lo) THEN lo ELSE IF QLt(hi, v) THEN hi ELSE v
                       IN  /\ QEq(QMul(out.vals[i], QSub(hi, lo)), QSub(c, lo))
                           /\ QLe(Q(0), out.vals[i]) /\ QLe(out.vals[i], Q(1))

\* The corrective multiplier the raw motion value decides.
MotionMultiplier(m) ==
    IF QLt(Q(12), m)
    THEN QAdd(Q(1), QMul(<<15, 1000>>, QSub(IF QLt(m, Q(20)) THEN m ELSE Q(20), Q(12))))
    ELSE Q(1)

Clamp0To100(x) == IF QLt(x, Q(0)) THEN Q(0) ELSE IF QLt(Q(100), x) THEN Q(100) ELSE x

\* C8: in the legacy pipeline the final score of every frame equals
\* clamp(p * k, 0, 100), p the predictor's output for the frame and k decided
\* by the frame's raw motion value: k = 1 + 0.015 * (min(motion, 20) - 12)
\* when raw motion > 12.0, k = 1 otherwise (raw motion 15 and p = 80 give 83.6).
C8_Original_CorrectionUsesRawMotion ==
    (IsLegacy /\ call.op = "_run_on_asset" /\ out.status = "returned") =>
        /\ Len(out.scores) = Len(call.env.frames)
        /\ \A i \in 1..Len(call.env.frames) :
              QEq(out.scores[i],
                  Clamp0To100(QMul(call.env.preds[i],
                                   MotionMultiplier(call.env.frames[i].motion))))

WarpActive ==
    /\ call.info.score_clip # None
    /\ call.info.dis1st_thr # None
    /\ call.xs.dis1st # None

\* C9: warp_score changes scores only when score_clip and dis1st_thr are in
\* the model metadata and the dis1st feature is in xs; then, for every frame,
\* a score y with feature value d < dis1st_thr is replaced by
\* hi - d * (hi - y) / dis1st_thr (hi the upper bound of score_clip) and a
\* score with d >= dis1st_thr is returned unchanged; if any of the three is
\* absent every score is returned unchanged.  The output has the length of
\* the input.
C9_WarpScore ==
    call.op = "warp_score" =>
        /\ ~WarpActive => (out.status = "returned" /\ out.ys = call.ys_pred)
        /\ out.status # "returned" =>
              (WarpActive /\ Len(call.xs.dis1st.v) # Len(call.ys_pred))
        /\ (WarpActive /\ out.status = "returned") =>
              /\ Len(out.ys) = Len(call.ys_pred)
              /\ \A i \in 1..Len(call.ys_pred) :
                    LET d == call.xs.dis1st.v[i]
                        thr == call.info.dis1st_thr.v
                        hi == call.info.score_clip.v[2]
                        y == call.ys_pred[i]
                    IN  IF d < thr
                        THEN QEq(QMul(out.ys[i], Q(thr)),
                                 QSub(Q(hi * thr), QMul(Q(d), QSub(Q(hi), y))))
                        ELSE out.ys[i] = y
        /\ (/\ call.info = [score_clip |-> Some(<<0, 100>>), dis1st_thr |-> Some(5)]
            /\ call.xs.dis1st = Some(<<2>>)
            /\ call.ys_pred = <<Q(90)>>) => out.ys = <<Q(96)>>

\* C9 witness: a warp with all three present, one frame below the threshold
\* (warped from 90 to 96) and one frame above it (50, unchanged).
C9_Witness ==
    /\ call.op = "warp_score"
    /\ call.info = [score_clip |-> Some(<<0, 100>>), dis1st_thr |-> Some(5)]
    /\ call.xs.dis1st = Some(<<2, 7>>)
    /\ call.ys_pred = <<Q(90), Q(50)>>
    /\ out.status = "returned"
    /\ out.ys = <<Q(96), Q(50)>>

\* C10: on the default path of VmafQualityRunner._run_on_asset the sequence
\* under 'VMAF_scores' is decided by the prediction and the model's
\* score_clip only: with score_clip = (lo, hi) every stored value lies in
\* [lo, hi] and equals clip(prediction, lo, hi); without score_clip the stored
\* sequence is the prediction and no error is raised; the warp is never
\* applied, whether or not dis1st_thr is present.
C10_DefaultPathClipsOnly ==
    (IsVmaf /\ call.op = "_run_on_asset") =>
        LET file == model_file[ResolvedPath(self)]
        IN  /\ (file.status = "ok" /\ call.env.fa_ok) => out.status = "returned"
            /\ out.status = "returned" =>
                  /\ file.status = "ok"
                  /\ out.scores_key = "VMAF_scores"
                  /\ Len(out.scores) = Len(call.env.preds)
                  /\ \A i \in 1..Len(call.env.preds) :
                        LET p == call.env.preds[i]
                            clip == file.info.score_clip
                        IN  IF clip = None THEN out.scores[i] = p
                            ELSE /\ QLe(Q(clip.v[1]), out.scores[i])
                                 /\ QLe(out.scores[i], Q(clip.v[2]))
                                 /\ out.scores[i] =
                                       IF QLt(p, Q(clip.v[1])) THEN Q(clip.v[1])
                                       ELSE IF QLt(Q(clip.v[2]), p) THEN Q(clip.v[2])
                                       ELSE p

\* C10 witness: a run with score_clip = (0, 100) and dis1st_thr present stored
\* the predictions 120 and 80 as 100 and 80.
C10_Witness ==
    /\ IsVmaf /\ call.op = "_run_on_asset"
    /\ out.status = "returned"
    /\ model_file[ResolvedPath(self)].info = [score_clip |-> Some(<<0, 100>>), dis1st_thr |-> Some(5)]
    /\ call.env.preds = <<Q(120), Q(80)>>
    /\ out.scores = <<Q(100), Q(80)>>

(***************************************************************************)
(* Claims about executor identity (SpecId).                                *)
(***************************************************************************)
\* The optional parameters of a runner as a set of <<key, value>> pairs,
\* whatever the supply order.
Items(rn) ==
    IF rn.optional_dict = None THEN {}
    ELSE {rn.optional_dict.supplied[i] : i \in 1..Len(rn.optional_dict.supplied)}

\* Two supply orders of the same optional-parameter mapping.
SameMapping(rn1, rn2) ==
    /\ (rn1.optional_dict = None) <=> (rn2.optional_dict = None)
    /\ Items(rn1) = Items(rn2)

\* Two mappings that differ in at least one key or value.
DifferentMapping(rn1, rn2) == Items(rn1) # Items(rn2)

BothReturned == \A r \in RunnerIds : results[r].status = "returned"

\* C1: the executor identity _read_result attaches to a result is the same
\* for any two supply orders of the same optional-parameter mapping, and is
\* different for any two mappings that differ in a key or a value.
C1_Original_IdentityInjective ==
    (BothReturned /\ runners[1].cls = "PsnrQualityRunner") =>
        /\ SameMapping(runners[1], runners[2]) =>
              results[1].executor_id = results[2].executor_id
        /\ DifferentMapping(runners[1], runners[2]) =>
              results[1].executor_id # results[2].executor_id

\* C2: for any asset and any two configurations of the same model inference
\* metric that differ in an optional parameter, the Results _run_on_asset
\* returns carry different executor identities; identical configurations
\* yield identical identities.
C2_Original_RunIdentityDistinguishesConfigs ==
    (BothReturned /\ runners[1].cls # "PsnrQualityRunner") =>
        /\ SameMapping(runners[1], runners[2]) =>
              results[1].executor_id = results[2].executor_id
        /\ DifferentMapping(runners[1], runners[2]) =>
              results[1].executor_id # results[2].executor_id

====
